---- MODULE Spec2Model ----
(***************************************************************************)
(* Model of the local nutrition diary data layer (db/actions/diaryActions) *)
(* and of the root layout's start-up sequence.                             *)
(*                                                                         *)
(* Strings are sequences of one-character strings, so that toLowerCase,    *)
(* split(" ") and the LIKE pattern match are computed character by         *)
(* character.  Nutrient values are integers in tenths of a unit (fat_g 3.6 *)
(* is 36), which keeps the products exact as they are in the example of    *)
(* the specification.                                                      *)
(***************************************************************************)
EXTENDS Integers, Sequences, FiniteSets, TLC

VARIABLES
    foods,          \* the "foods" collection: a sequence of Food records
    query,          \* argument of the last searchFoods call
    searchResult,   \* what the last searchFoods call resolved to
    searchPc,       \* "idle" before any call, "done" after one
    diary,          \* the "diary_entries" collection: the committed rows, in order
    calls,          \* calls[c]: the logFoodToDiary call of caller c
    writer,         \* the caller whose database.write block is running, or "none"
    subs,           \* subs[s]: a subscription to observeDiaryEntriesForDate(date)
    foodAtCreation, \* history: foodAtCreation[i] is the Food as the builder of row i read it
    fonts,          \* useFonts: "loading", "loaded" (fontsLoaded) or "error" (fontError)
    appInitialized, \* RootLayout's local state
    isLoading,      \* app store
    currentUser,    \* app store: "none" is null
    onboardingComplete, \* app store
    isAuthenticated,    \* app store
    initPc,         \* where initializeApp stands: "idle", "seeding", "lookup", "done"
    closure,        \* onboardingComplete as the running initializeApp captured it
    seedOutcome,    \* history: how seedFoodDatabase settled
    lookupOutcome,  \* history: how getActiveUser settled
    navTimer,       \* the navigation effect's timeout: "none", "armed", "fired"
    route           \* the target of the last router.replace, "" before any

searchVars == <<query, searchResult, searchPc>>
diaryVars == <<diary, calls, writer, subs, foodAtCreation>>
storeVars == <<isLoading, currentUser, onboardingComplete, isAuthenticated>>
appVars == <<fonts, appInitialized, storeVars, initPc, closure, seedOutcome,
             lookupOutcome, navTimer, route>>
vars == <<foods, searchVars, diaryVars, appVars>>

----------------------------------------------------------------------------
(* Bounds *)

MaxQueryLen == 3
MaxCatalog == 2
MaxEntries == 2

----------------------------------------------------------------------------
(* Characters and strings *)

TAB == "\t"

QueryChars == {"a", "b", "A", " ", TAB, "_"}

toLowerCase1(c) == CASE c = "A" -> "a" [] c = "B" -> "b" [] OTHER -> c

toLowerCase(s) == [i \in 1..Len(s) |-> toLowerCase1(s[i])]

\* String.prototype.split(sep) for a one-character separator: the pieces
\* between the occurrences of sep, empty pieces included.
RECURSIVE splitFrom(_, _, _)
splitFrom(s, sep, cur) ==
    IF s = <<>> THEN <<cur>>
    ELSE IF Head(s) = sep THEN <<cur>> \o splitFrom(Tail(s), sep, <<>>)
    ELSE splitFrom(Tail(s), sep, Append(cur, Head(s)))

split(s, sep) == splitFrom(s, sep, <<>>)

\* SQL LIKE as the store evaluates it: % is any run of characters, _ is any
\* one character, letters compare case-insensitively.
RECURSIVE like(_, _)
like(str, pat) ==
    IF pat = <<>> THEN str = <<>>
    ELSE IF Head(pat) = "%"
         THEN like(str, Tail(pat)) \/ (str # <<>> /\ like(Tail(str), pat))
    ELSE IF str = <<>> THEN FALSE
    ELSE IF Head(pat) = "_" THEN like(Tail(str), Tail(pat))
    ELSE toLowerCase1(Head(str)) = toLowerCase1(Head(pat))
         /\ like(Tail(str), Tail(pat))

\* .filter((w) => w) keeps the non-empty pieces
searchWords(q) == SelectSeq(split(toLowerCase(q), " "), LAMBDA w : w # <<>>)

\* Q.where("name", Q.like(`%${word}%`))
whereNameLike(food, word) == like(food.name, <<"%">> \o word \o <<"%">>)

\* Q.and(...conditions): true of a record when every condition is
foodMatches(food, words) ==
    \A i \in 1..Len(words) : whereNameLike(food, words[i])

\* searchFoods: the value the promise resolves to
searchFoodsResult(q) ==
    IF q = <<>> THEN <<>>
    ELSE SelectSeq(foods, LAMBDA f : foodMatches(f, searchWords(q)))

----------------------------------------------------------------------------
(* Diary: the data *)

\* The store runs one write block at a time (writer); the calls come from
\* one flow of the user interface, one after the other.
Callers == {"c1"}
SubIds == {"s1", "s2"}

D15 == "2024-01-15"
D16 == "2024-01-16"
D5 == "2024-01-5"

MealTypes == {"breakfast", "lunch", "dinner", "snacks"}

Chicken == [calories |-> 165, protein_g |-> 31, carbs_g |-> 0, fat_g |-> 36]
Rice == [calories |-> 130, protein_g |-> 27, carbs_g |-> 28, fat_g |-> 3]

NutrientProfiles == {Chicken, Rice}

\* The option objects the callers pass.  food is the Food model object, a
\* reference to the live record: its index in the foods collection.
LogInputs == {
    [userId |-> "u1", food |-> 1, date |-> D15, mealType |-> "lunch", servings |-> 2],
    [userId |-> "u1", food |-> 1, date |-> D5, mealType |-> "dinner", servings |-> 1],
    [userId |-> "u1", food |-> 1, date |-> D15, mealType |-> "snacks", servings |-> -1],
    [userId |-> "u1", food |-> 1, date |-> D16, mealType |-> "brunch", servings |-> 2] }

NoOptions == [userId |-> "", food |-> 0, date |-> "", mealType |-> "", servings |-> 0]

\* collection.create makes the record with a fresh id and every column at its
\* default (the empty string, zero), then hands it to the builder.
newRecord(id) ==
    [id |-> id, userId |-> "", foodId |-> 0, date |-> "", mealType |-> "",
     servings |-> 0, calories |-> 0, protein_g |-> 0, carbs_g |-> 0, fat_g |-> 0]

NoEntry == newRecord(0)

NoFood == [id |-> 0, name |-> <<>>, calories |-> 0, protein_g |-> 0,
           carbs_g |-> 0, fat_g |-> 0]

\* A builder that stores the per-serving values, the servings factor forgotten
buildEntry_perServing(entry, o) ==
    LET food == foods[o.food]
    IN  [entry EXCEPT
            !.userId = o.userId, !.foodId = food.id, !.date = o.date,
            !.mealType = o.mealType, !.servings = o.servings,
            !.calories = food.calories, !.protein_g = food.protein_g,
            !.carbs_g = food.carbs_g, !.fat_g = food.fat_g]

\* The builder of logFoodToDiary
buildEntry(entry, o) ==
    LET food == foods[o.food]
    IN  [entry EXCEPT
            !.userId = o.userId,
            !.foodId = food.id,
            !.date = o.date,
            !.mealType = o.mealType,
            !.servings = o.servings,
            !.calories = food.calories * o.servings,
            !.protein_g = food.protein_g * o.servings,
            !.carbs_g = food.carbs_g * o.servings,
            !.fat_g = food.fat_g * o.servings]

IdleCall == [pc |-> "idle", opts |-> NoOptions, entry |-> NoEntry, foodSeen |-> NoFood]

NoSub == [state |-> "unused", date |-> "", dirty |-> FALSE,
          snapshot |-> <<>>, deliveries |-> 0]

DiaryIdle ==
    /\ diary = <<>>
    /\ calls = [c \in Callers |-> IdleCall]
    /\ writer = "none"
    /\ subs = [s \in SubIds |-> NoSub]
    /\ foodAtCreation = <<>>

SearchIdle ==
    /\ query = <<>>
    /\ searchResult = <<>>
    /\ searchPc = "idle"

AppIdle ==
    /\ fonts = "loading"
    /\ appInitialized = FALSE
    /\ isLoading = TRUE
    /\ currentUser = "none"
    /\ onboardingComplete = FALSE
    /\ isAuthenticated = FALSE
    /\ initPc = "idle"
    /\ closure = FALSE
    /\ seedOutcome = "none"
    /\ lookupOutcome = "none"
    /\ navTimer = "none"
    /\ route = ""

DiaryInit ==
    /\ foods = << [id |-> 1, name |-> <<"a">>] @@ Chicken >>
    /\ SearchIdle
    /\ DiaryIdle
    /\ AppIdle

----------------------------------------------------------------------------
(* Diary: logFoodToDiary *)

InFlight == {c \in Callers : calls[c].pc \in {"queued", "prepared"}}

\* The call: the options are destructured and database.write queues the block.
logFoodToDiary(c) ==
    \E o \in LogInputs :
        /\ calls[c].pc \notin {"queued", "prepared"}
        /\ Len(diary) + Cardinality(InFlight) < MaxEntries
        /\ calls' = [calls EXCEPT ![c] = [IdleCall EXCEPT !.pc = "queued", !.opts = o]]
        /\ UNCHANGED <<foods, searchVars, appVars, diary, writer, subs, foodAtCreation>>

\* The write block starts when no other writer runs; create runs the builder.
writeBlock(c) ==
    /\ calls[c].pc = "queued"
    /\ writer = "none"
    /\ writer' = c
    /\ calls' = [calls EXCEPT
          ![c].pc = "prepared",
          ![c].entry = buildEntry(newRecord(Len(diary) + 1), calls[c].opts),
          ![c].foodSeen = foods[calls[c].opts.food]]
    /\ UNCHANGED <<foods, searchVars, appVars, diary, subs, foodAtCreation>>

\* A query with the where clause left out
whereDate_anyDate(entry, date) == TRUE

\* Q.where("date", date): the rows whose date column equals the argument
whereDate(entry, date) == entry.date = date

queryByDate(rows, date) == SelectSeq(rows, LAMBDA e : whereDate(e, date))

\* A one-shot fetch in place of observe: no later change is told
notified_never(sub, entry) == FALSE

\* An observer that re-emits on every write to the collection
notified_anyWrite(sub, entry) == sub.state = "active"

\* The store tells a query's observer of a committed change when the change
\* alters the query's result.
notified(sub, entry) == sub.state = "active" /\ whereDate(entry, sub.date)

\* The batch commits: the row joins the collection, the subscriptions its
\* date matches are told, the promise resolves.
writeCommit(c) ==
    /\ calls[c].pc = "prepared"
    /\ writer = c
    /\ diary' = Append(diary, calls[c].entry)
    /\ foodAtCreation' = Append(foodAtCreation, calls[c].foodSeen)
    /\ subs' = [s \in SubIds |->
                  IF notified(subs[s], calls[c].entry)
                  THEN [subs[s] EXCEPT !.dirty = TRUE]
                  ELSE subs[s]]
    /\ writer' = "none"
    /\ calls' = [calls EXCEPT ![c] = [IdleCall EXCEPT !.pc = "resolved"]]
    /\ UNCHANGED <<foods, searchVars, appVars>>

\* A failed write that leaves the record it had made so far in the collection
writeFail_keepsRow(c) ==
    /\ \/ calls[c].pc = "prepared" /\ writer = c
       \/ calls[c].pc = "queued" /\ writer = "none"
    /\ writer' = "none"
    /\ diary' = Append(diary, calls[c].entry)
    /\ foodAtCreation' = Append(foodAtCreation, calls[c].foodSeen)
    /\ calls' = [calls EXCEPT ![c] = [IdleCall EXCEPT !.pc = "rejected"]]
    /\ UNCHANGED <<foods, searchVars, appVars, subs>>

\* The write does not commit: the prepared record is dropped and the
\* rejection of database.write passes through logFoodToDiary to its caller.
writeFail(c) ==
    /\ \/ calls[c].pc = "prepared" /\ writer = c
       \/ calls[c].pc = "queued" /\ writer = "none"
    /\ writer' = "none"
    /\ calls' = [calls EXCEPT ![c] = [IdleCall EXCEPT !.pc = "rejected"]]
    /\ UNCHANGED <<foods, searchVars, appVars, diary, subs, foodAtCreation>>

----------------------------------------------------------------------------
(* Diary: observeDiaryEntriesForDate *)

SubDates == {D15, D16}

subscribe(s) ==
    \E d \in SubDates :
        /\ subs[s].state = "unused"
        /\ subs' = [subs EXCEPT ![s] = [NoSub EXCEPT
                        !.state = "active", !.date = d, !.dirty = TRUE]]
        /\ UNCHANGED <<foods, searchVars, appVars, diary, calls, writer, foodAtCreation>>

\* The observer emits the query's current result.
deliver(s) ==
    /\ subs[s].state = "active"
    /\ subs[s].dirty
    /\ subs' = [subs EXCEPT
          ![s].snapshot = queryByDate(diary, subs[s].date),
          ![s].deliveries = @ + 1,
          ![s].dirty = FALSE]
    /\ UNCHANGED <<foods, searchVars, appVars, diary, calls, writer, foodAtCreation>>

\* An unsubscribe that closes the whole channel of its date
unsubscribe_byDate(s) ==
    /\ subs[s].state = "active"
    /\ subs' = [t \in SubIds |->
                  IF subs[t].state = "active" /\ subs[t].date = subs[s].date
                  THEN [NoSub EXCEPT !.state = "cancelled"]
                  ELSE subs[t]]
    /\ UNCHANGED <<foods, searchVars, appVars, diary, calls, writer, foodAtCreation>>

\* The unsubscribe function: the observer is dropped with what it held.
unsubscribe(s) ==
    /\ subs[s].state = "active"
    /\ subs' = [subs EXCEPT ![s] = [NoSub EXCEPT !.state = "cancelled"]]
    /\ UNCHANGED <<foods, searchVars, appVars, diary, calls, writer, foodAtCreation>>

----------------------------------------------------------------------------
(* Diary: a change of a Food record by the catalog's owner *)

updateFood(i) ==
    \E p \in NutrientProfiles :
        /\ writer = "none"
        /\ [f \in DOMAIN p |-> foods[i][f]] # p
        /\ foods' = [foods EXCEPT ![i] = p @@ foods[i]]
        /\ UNCHANGED <<searchVars, diaryVars, appVars>>

DiaryNext ==
    \/ \E c \in Callers : logFoodToDiary(c)
    \/ \E c \in Callers : writeBlock(c)
    \/ \E c \in Callers : writeCommit(c)
    \/ \E c \in Callers : writeFail(c)
    \/ \E s \in SubIds : subscribe(s)
    \/ \E s \in SubIds : deliver(s)
    \/ \E s \in SubIds : unsubscribe(s)
    \/ \E i \in 1..Len(foods) : updateFood(i)

DiarySpec == DiaryInit /\ [][DiaryNext]_vars

Fairness ==
    /\ \A c \in Callers : WF_vars(writeBlock(c))
    /\ \A c \in Callers : WF_vars(writeCommit(c) \/ writeFail(c))
    /\ \A s \in SubIds : WF_vars(deliver(s))

\* The Food records play no part in delivery: the liveness specification
\* leaves them as they are.
DiaryLiveNext ==
    \/ \E c \in Callers : logFoodToDiary(c)
    \/ \E c \in Callers : writeBlock(c)
    \/ \E c \in Callers : writeCommit(c)
    \/ \E c \in Callers : writeFail(c)
    \/ \E s \in SubIds : subscribe(s)
    \/ \E s \in SubIds : deliver(s)
    \/ \E s \in SubIds : unsubscribe(s)

DiaryLive == DiaryInit /\ [][DiaryLiveNext]_vars /\ Fairness

----------------------------------------------------------------------------
(* Search: catalogs and queries *)

RECURSIVE SeqsUpTo(_, _)
SeqsUpTo(S, n) ==
    IF n = 0 THEN {<<>>}
    ELSE LET shorter == SeqsUpTo(S, n - 1)
         IN  shorter \cup {Append(s, x) : s \in shorter, x \in S}

Queries == SeqsUpTo(QueryChars, MaxQueryLen)

FoodNames == { <<"A", "b">>, <<"b", " ", "a">>, <<"a">>, <<"B", "b">> }

Catalogs ==
    { [i \in 1..Len(names) |->
          [NoFood EXCEPT !.id = i, !.name = names[i]]]
      : names \in SeqsUpTo(FoodNames, MaxCatalog) }

SearchInit ==
    /\ DiaryIdle
    /\ AppIdle
    /\ foods \in Catalogs
    /\ query = <<>>
    /\ searchResult = <<>>
    /\ searchPc = "idle"

searchFoods ==
    \E q \in Queries :
        /\ query' = q
        /\ searchResult' = searchFoodsResult(q)
        /\ searchPc' = "done"
        /\ UNCHANGED <<foods, diaryVars, appVars>>

SearchNext == searchFoods

SearchSpec == SearchInit /\ [][SearchNext]_vars

----------------------------------------------------------------------------
(* RootLayout: start-up *)

Users == {"none", "u1"}

otherVars == <<foods, searchVars, diaryVars>>

\* The app store and its persisted part are not among the sources: start-up
\* may find any values in it.
AppInit ==
    /\ foods = <<>>
    /\ SearchIdle
    /\ DiaryIdle
    /\ fonts = "loading"
    /\ appInitialized = FALSE
    /\ isLoading \in BOOLEAN
    /\ currentUser \in Users
    /\ onboardingComplete \in BOOLEAN
    /\ isAuthenticated \in BOOLEAN
    /\ initPc = "idle"
    /\ closure = FALSE
    /\ seedOutcome = "none"
    /\ lookupOutcome = "none"
    /\ navTimer = "none"
    /\ route = ""

\* setCurrentUser of the app store: the store is not among the sources, what
\* it makes of isAuthenticated is left open.
setCurrentUser(user) ==
    /\ currentUser' = user
    /\ isAuthenticated' \in BOOLEAN

\* useFonts settles: fontsLoaded or fontError
fontsSettle ==
    \E f \in {"loaded", "error"} :
        /\ fonts = "loading"
        /\ fonts' = f
        /\ UNCHANGED <<appInitialized, storeVars, initPc, closure, seedOutcome,
                       lookupOutcome, navTimer, route, otherVars>>

\* The initialization effect runs when its dependencies change: once the
\* fonts have settled, with appInitialized still false.  initializeApp
\* starts, setLoading(true), and waits for seedFoodDatabase.
initializeApp ==
    /\ fonts # "loading"
    /\ ~appInitialized
    /\ initPc = "idle"
    /\ isLoading' = TRUE
    /\ closure' = onboardingComplete
    /\ initPc' = "seeding"
    /\ UNCHANGED <<fonts, appInitialized, currentUser, onboardingComplete,
                   isAuthenticated, seedOutcome, lookupOutcome, navTimer, route,
                   otherVars>>

seedResolved ==
    /\ initPc = "seeding"
    /\ seedOutcome' = "ok"
    /\ initPc' = "lookup"
    /\ UNCHANGED <<fonts, appInitialized, storeVars, closure, lookupOutcome,
                   navTimer, route, otherVars>>

\* seedFoodDatabase awaited outside the inner try: its rejection lands in the
\* outer catch and getActiveUser is never called
seedRejected_uncaught ==
    /\ initPc = "seeding"
    /\ seedOutcome' = "failed"
    /\ setCurrentUser("none")
    /\ onboardingComplete' = FALSE
    /\ isLoading' = FALSE
    /\ appInitialized' = TRUE
    /\ initPc' = "done"
    /\ UNCHANGED <<fonts, closure, lookupOutcome, navTimer, route, otherVars>>

\* The inner catch: a warning, and initialization goes on to getActiveUser.
seedRejected ==
    /\ initPc = "seeding"
    /\ seedOutcome' = "failed"
    /\ initPc' = "lookup"
    /\ UNCHANGED <<fonts, appInitialized, storeVars, closure, lookupOutcome,
                   navTimer, route, otherVars>>

\* getActiveUser resolves; the store is updated; finally.
lookupResolved ==
    \E user \in Users :
        /\ initPc = "lookup"
        /\ lookupOutcome' = IF user = "none" THEN "nouser" ELSE "user"
        /\ setCurrentUser(user)
        /\ onboardingComplete' =
              IF user # "none" /\ ~closure THEN TRUE ELSE onboardingComplete
        /\ isLoading' = FALSE
        /\ appInitialized' = TRUE
        /\ initPc' = "done"
        /\ UNCHANGED <<fonts, closure, seedOutcome, navTimer, route, otherVars>>

\* getActiveUser rejects: the outer catch resets the store; finally.
lookupRejected ==
    /\ initPc = "lookup"
    /\ lookupOutcome' = "failed"
    /\ setCurrentUser("none")
    /\ onboardingComplete' = FALSE
    /\ isLoading' = FALSE
    /\ appInitialized' = TRUE
    /\ initPc' = "done"
    /\ UNCHANGED <<fonts, closure, seedOutcome, navTimer, route, otherVars>>

\* The navigation effect's early return
navigationBlocked == ~appInitialized \/ fonts = "loading" \/ isLoading

\* The navigation effect arms its timeout.
navigationEffect ==
    /\ ~navigationBlocked
    /\ navTimer = "none"
    /\ navTimer' = "armed"
    /\ UNCHANGED <<fonts, appInitialized, storeVars, initPc, closure,
                   seedOutcome, lookupOutcome, route, otherVars>>

\* The timeout fires: router.replace
navigate ==
    /\ navTimer = "armed"
    /\ navTimer' = "fired"
    /\ route' = IF isAuthenticated /\ onboardingComplete THEN "/(tabs)"
                ELSE IF isAuthenticated THEN "/onboarding"
                ELSE "/(auth)/CreateProfileScreen"
    /\ UNCHANGED <<fonts, appInitialized, storeVars, initPc, closure,
                   seedOutcome, lookupOutcome, otherVars>>

AppNext ==
    \/ fontsSettle
    \/ initializeApp
    \/ seedResolved
    \/ seedRejected
    \/ lookupResolved
    \/ lookupRejected
    \/ navigationEffect
    \/ navigate

AppSpec == AppInit /\ [][AppNext]_vars

\* An awaited promise settles; an effect whose dependencies changed runs.
AppFairness ==
    /\ WF_vars(initializeApp)
    /\ WF_vars(seedResolved \/ seedRejected)
    /\ WF_vars(lookupResolved \/ lookupRejected)

AppLive == AppSpec /\ AppFairness

----------------------------------------------------------------------------
(* Properties: searchFoods *)

Range(seq) == {seq[i] : i \in 1..Len(seq)}

IsWhitespace(ch) == ch \in {" ", TAB}

IsBlank(q) == \A i \in 1..Len(q) : IsWhitespace(q[i])

\* The non-empty pieces of the lowercased query between runs of whitespace
RECURSIVE TokensFrom(_, _)
TokensFrom(s, cur) ==
    IF s = <<>> THEN (IF cur = <<>> THEN {} ELSE {cur})
    ELSE IF IsWhitespace(Head(s))
         THEN (IF cur = <<>> THEN {} ELSE {cur}) \cup TokensFrom(Tail(s), <<>>)
    ELSE TokensFrom(Tail(s), Append(cur, Head(s)))

Tokens(q) == TokensFrom(toLowerCase(q), <<>>)

\* tok occurs in name as a literal substring, letter case apart
ContainsLiteral(name, tok) ==
    \E i \in 0..(Len(name) - Len(tok)) :
        \A j \in 1..Len(tok) : toLowerCase1(name[i + j]) = toLowerCase1(tok[j])

ExpectedFoods(q) ==
    {f \in Range(foods) : \A tok \in Tokens(q) : ContainsLiteral(f.name, tok)}

\* C1: for a query that is not empty after trimming, searchFoods returns
\* exactly the foods whose name contains, case-insensitively and literally,
\* every token of the query, the tokens being the non-empty pieces of the
\* lowercased query split on any whitespace.
C1_SearchExact ==
    (searchPc = "done" /\ ~IsBlank(query))
        => Range(searchResult) = ExpectedFoods(query)

\* C2: a query that is empty after trimming (empty, or whitespace only)
\* yields the empty sequence whatever the catalog holds.
C2_BlankQueryEmpty ==
    (searchPc = "done" /\ IsBlank(query)) => searchResult = <<>>

----------------------------------------------------------------------------
(* Properties: logFoodToDiary *)

Nutrients == {"calories", "protein_g", "carbs_g", "fat_g"}

C3_TotalsOfCreation ==
    /\ Len(foodAtCreation) = Len(diary)
    /\ \A i \in 1..Len(diary) : \A n \in Nutrients :
          diary[i][n] = diary[i].servings * foodAtCreation[i][n]

C3_RowsStable ==
    /\ Len(diary') >= Len(diary)
    /\ \A i \in 1..Len(diary) : diary'[i] = diary[i]

\* C3: every stored entry's four totals equal its servings times the food's
\* per-serving values as they were when the entry was created, and no later
\* step, a change of the Food record included, alters a stored entry.
C3_DenormalizedTotals == []C3_TotalsOfCreation /\ [][C3_RowsStable]_vars

\* A food logged with two servings (330, 62, 0, 7.2), the Food record changed
\* since.
C3_Witness ==
    /\ Len(diary) >= 1
    /\ diary[1].servings = 2
    /\ diary[1].calories = 330 /\ diary[1].protein_g = 62
    /\ diary[1].carbs_g = 0 /\ diary[1].fat_g = 72
    /\ foods[1].calories # foodAtCreation[1].calories

\* Every field of the row is set: it is the row the builder makes of some
\* options and some state of the food.
CompleteEntry(e) ==
    \E o \in LogInputs : \E p \in NutrientProfiles :
        /\ e.id >= 1
        /\ e.userId = o.userId /\ e.foodId = o.food /\ e.date = o.date
        /\ e.mealType = o.mealType /\ e.servings = o.servings
        /\ \A n \in Nutrients : e[n] = p[n] * o.servings

C4_NoPartialRow ==
    /\ \A i \in 1..Len(diary) : CompleteEntry(diary[i])
    /\ \A s \in SubIds : \A j \in 1..Len(subs[s].snapshot) :
          CompleteEntry(subs[s].snapshot[j])

Running(c) == calls[c].pc \in {"queued", "prepared"}

C4_AllOrNothing ==
    /\ \A c \in Callers :
          (Running(c) /\ calls'[c].pc = "rejected") => diary' = diary
    /\ \A c \in Callers :
          (Running(c) /\ calls'[c].pc = "resolved")
              => diary' = Append(diary, calls[c].entry)
    /\ diary' # diary
          => \E c \in Callers : Running(c) /\ calls'[c].pc = "resolved"

\* C4: no reader or subscriber ever sees a row with only some fields set; a
\* call that fails leaves the collection as it was and ends rejected; a row
\* appears only as the whole record of a call that resolves.
C4_AtomicLog == []C4_NoPartialRow /\ [][C4_AllOrNothing]_vars

\* A call rejected after an earlier one had committed a row.
C4_Witness ==
    \E c \in Callers : calls[c].pc = "rejected" /\ Len(diary) = 1

WellFormedDates == {D15, D16}

ValidOptions(o) ==
    o.servings > 0 /\ o.date \in WellFormedDates /\ o.mealType \in MealTypes

\* C5: a call with non-positive servings, a malformed date or a mealType
\* outside the four fails before any store access: no write is queued or
\* started for it and no row of it reaches the collection.
C5_InvalidInputFailsFast ==
    /\ \A c \in Callers : Running(c) => ValidOptions(calls[c].opts)
    /\ \A i \in 1..Len(diary) : ValidOptions(diary[i])

----------------------------------------------------------------------------
(* Properties: observeDiaryEntriesForDate *)

Active(s) == subs[s].state = "active"

InSnapshot(s, e) == e \in Range(subs[s].snapshot)

\* C6: when a row of date D is committed and a subscription to D is active,
\* the subscriber is eventually handed a snapshot with the row in it, with
\* no step of its own (as long as it does not cancel).
C6_EventuallyDelivered ==
    \A s \in SubIds : \A i \in 1..MaxEntries :
        (Len(diary) >= i /\ Active(s) /\ diary[i].date = subs[s].date)
            ~> (~Active(s) \/ (Len(diary) >= i /\ InSnapshot(s, diary[i])))

\* A subscriber that was handed the empty result first and then a snapshot
\* with a row logged since.
C6_Witness ==
    \E s \in SubIds :
        /\ Active(s) /\ subs[s].deliveries >= 2
        /\ Len(diary) >= 1 /\ InSnapshot(s, diary[Len(diary)])

Delivered(s) == subs'[s].deliveries = subs[s].deliveries + 1

ExactMatches(rows, d) == SelectSeq(rows, LAMBDA e : e.date = d)

C7_DeliveryIsExact ==
    \A s \in SubIds :
        Delivered(s) => subs'[s].snapshot = ExactMatches(diary', subs'[s].date)

\* C7: every snapshot handed to a subscription for D, the first and the
\* later ones, is the sequence of all rows whose date string is exactly D
\* in the collection at that moment.
C7_SnapshotExact == [][C7_DeliveryIsExact]_vars

\* A subscription to 2024-01-15 handed a non-empty snapshot while rows of
\* 2024-01-5 or 2024-01-16 are in the collection.
C7_Witness ==
    \E s \in SubIds :
        /\ Active(s) /\ subs[s].date = D15 /\ ~subs[s].dirty
        /\ subs[s].snapshot # <<>>
        /\ \E i \in 1..Len(diary) : diary[i].date \in {D5, D16}

\* The date of the call of c that takes a step
StepDate(c) == IF Running(c) THEN calls[c].opts.date ELSE calls'[c].opts.date

C8_OtherDateSilent ==
    \A c \in Callers : \A s \in SubIds :
        (calls'[c] # calls[c] /\ Active(s) /\ StepDate(c) # subs[s].date)
            => subs'[s] = subs[s]

\* C8: no step of a logFoodToDiary call whose date differs from D, its
\* commit included, hands a snapshot to a subscription for D or schedules
\* one.
C8_NoDeliveryForOtherDate == [][C8_OtherDateSilent]_vars

\* A subscription to 2024-01-15 that has its row of that date and is owed
\* nothing, a row of another date committed after it.
C8_Witness ==
    \E s \in SubIds :
        /\ Active(s) /\ subs[s].date = D15 /\ ~subs[s].dirty
        /\ subs[s].deliveries = 2
        /\ Len(diary) = 2 /\ diary[1].date = D15 /\ diary[2].date # D15
        /\ subs[s].snapshot = <<diary[1]>>

C9_CancelIsLocal ==
    \A s \in SubIds :
        /\ (Active(s) /\ subs'[s].state = "cancelled")
              => /\ diary' = diary
                 /\ \A t \in SubIds \ {s} : subs'[t] = subs[t]
        /\ subs[s].state = "cancelled" => subs'[s] = subs[s]

\* C9: cancelling a subscription leaves the collection and every other
\* subscription as they were, and a cancelled subscription is handed nothing
\* again.
C9_IndependentCancel == [][C9_CancelIsLocal]_vars

\* One subscription cancelled, the other, for the same date, handed a row
\* since.
C9_Witness ==
    \E s, t \in SubIds :
        /\ subs[s].state = "cancelled"
        /\ Active(t) /\ subs[t].deliveries >= 2 /\ subs[t].snapshot # <<>>

----------------------------------------------------------------------------
(* Properties: start-up *)

C10_Safe ==
    /\ initPc = "done" => (~isLoading /\ appInitialized)
    /\ (lookupOutcome = "failed" /\ initPc = "done")
          => (currentUser = "none" /\ ~onboardingComplete)
    /\ navTimer = "armed" => (appInitialized /\ ~isLoading)
    /\ route # "" => (appInitialized /\ ~isLoading)

\* C10: once initializeApp has started it ends, with isLoading false and
\* appInitialized true, however seeding and the user lookup settle; a failed
\* seeding is followed by the user lookup; a failed lookup leaves no current
\* user and onboarding not complete; no navigation is scheduled while
\* appInitialized is false or isLoading is true.
C10_Startup ==
    /\ []C10_Safe
    /\ (initPc \in {"seeding", "lookup"}) ~> (initPc = "done")
    /\ (seedOutcome = "failed") ~> (lookupOutcome # "none")

\* Seeding failed, the lookup found a user, navigation is scheduled.
C10_Witness ==
    /\ seedOutcome = "failed"
    /\ lookupOutcome = "user"
    /\ initPc = "done"
    /\ navTimer = "armed"

====
